---- MODULE Spec2Model ----
(***************************************************************************)
(* Finance AI Agent backend (src/finance.py): the in-memory store, the     *)
(* agent core that is rebuilt from the store on every request, and the     *)
(* four HTTP handlers.                                                     *)
(*                                                                         *)
(* Account names are romanised:                                            *)
(*   Cash = 현금, Receivables = 매출채권, Inventory = 재고자산,             *)
(*   ShortTermBorrowings = 단기차입금, CapitalStock = 자본금,               *)
(*   Revenue = 매출액, COGS = 매출원가, OperatingIncome = 영업이익,         *)
(*   SGnA = 판관비.                                                        *)
(*                                                                         *)
(* An optional float (Python None / pandas NaN against a number) is a      *)
(* sequence of length 0 or 1: <<>> is the absent value, <<x>> the number x. *)
(* Amounts are integers.  The timestamp and the constant agent_action of   *)
(* a log entry, the glossary and the raw-file storage are left out: no     *)
(* handler reads them back into a decision.                                *)
(***************************************************************************)
EXTENDS Integers, Sequences, FiniteSets, TLC

VARIABLES financial_data_header, financial_data_line_items, reconciliation_log, response

vars == <<financial_data_header, financial_data_line_items, reconciliation_log, response>>

(***************************************************************************)
(* Bounds of the explored input space.                                     *)
(***************************************************************************)
MaxRows == 2
MaxLog == 2

Users == {"u1", "u2"}
Years == {2024}
Amounts == {<<>>, <<0>>, <<2>>}
ReconcileValues == {2}
UploadTypes == {"BS", "IS"}
RequestTypes == {"BS", "IS", "CFS"}
ProjectIds == {1}
Accounts == <<"ShortTermBorrowings", "Revenue", "SGnA">>

CRITICAL_BS_ITEMS == <<"Cash", "Receivables", "Inventory", "ShortTermBorrowings", "CapitalStock">>
CRITICAL_IS_ITEMS == <<"Revenue", "COGS", "OperatingIncome">>

Range(s) == {s[k] : k \in 1..Len(s)}

(***************************************************************************)
(* Uploaded files.  A parsed file is a sequence of rows (account, amount   *)
(* in the requested year's column, possibly blank); the files drawn list   *)
(* distinct accounts in the order of the account universe.                 *)
(***************************************************************************)
Rank(accts, a) == CHOOSE k \in 1..Len(accts) : accts[k] = a

RowSeqs(accts, maxRows) ==
    {rows \in UNION {[1..n -> [account : Range(accts), amount : Amounts]] : n \in 0..maxRows} :
        \A k \in 1..(Len(rows) - 1) :
            Rank(accts, rows[k].account) < Rank(accts, rows[k + 1].account)}

Files(accts, maxRows) ==
    {[problem |-> "none", rows |-> rows] : rows \in RowSeqs(accts, maxRows)}
    \cup {[problem |-> p, rows |-> <<>>] :
            p \in {"UnsupportedFileType", "MissingAccountColumn", "MissingYearColumn"}}

(***************************************************************************)
(* FinanceAIAgentCore: the frames loaded from the store.                   *)
(***************************************************************************)
NoFrame == [present |-> FALSE, index |-> {}, columns |-> <<>>]

\* One single-row frame per stored item, concatenated along the columns: one
\* column per item, labelled with the item's year, holding the item's amount
\* in the row of its account and NaN elsewhere; the rows are the union of the
\* accounts.  dropna(axis=1, how='all') then drops every column without a value.
LoadFrame(line_items) ==
    IF line_items = <<>> THEN NoFrame
    ELSE LET index == {line_items[k].standard_account : k \in 1..Len(line_items)}
             column(k) ==
                 [label |-> line_items[k].year,
                  cells |-> [a \in index |->
                                IF a = line_items[k].standard_account
                                THEN line_items[k].amount ELSE <<>>]]
             combined == [k \in 1..Len(line_items) |-> column(k)]
             hasValue(c) == \E a \in index : c.cells[a] # <<>>
         IN [present |-> TRUE, index |-> index, columns |-> SelectSeq(combined, hasValue)]

\* df.empty
Empty(df) == df.index = {} \/ df.columns = <<>>

\* df.columns[-1]
LatestCol(df) == df.columns[Len(df.columns)].label

\* df.loc[item, col]: the cells of row `item` in every column labelled `col`;
\* a scalar when one column carries the label, a Series otherwise.
Loc(df, item, col) ==
    LET hit == SelectSeq(df.columns, LAMBDA c : c.label = col)
    IN [k \in 1..Len(hit) |-> hit[k].cells[item]]

IsScalar(sel) == Len(sel) = 1

\* __init__ and _load_data_from_db: all three frames are the same combined
\* frame (the statement type of an item is not read); the log is the stored
\* list when there are line items, and a fresh empty list otherwise.
FinanceAIAgentCore(project_id) ==
    LET line_items == IF project_id \in DOMAIN financial_data_line_items
                      THEN financial_data_line_items[project_id] ELSE <<>>
        df == LoadFrame(line_items)
    IN [bs_df |-> df, is_df |-> df, cfs_df |-> df,
        reconciliation_log |->
            IF line_items # <<>> /\ project_id \in DOMAIN reconciliation_log
            THEN reconciliation_log[project_id] ELSE <<>>,
        log_is_stored_list |->
            line_items # <<>> /\ project_id \in DOMAIN reconciliation_log]

(***************************************************************************)
(* _detect_missing_critical_items                                          *)
(***************************************************************************)
\* pd.isna(df.loc[item, col]) used as a condition: the truth value of a Series
\* of several cells is ambiguous and raises ValueError.
IsnaRaises(df, critical) ==
    \E k \in 1..Len(critical) :
        critical[k] \in df.index /\ ~IsScalar(Loc(df, critical[k], LatestCol(df)))

MissingIn(df, critical) ==
    SelectSeq(critical,
              LAMBDA item : item \in df.index /\ Loc(df, item, LatestCol(df))[1] = <<>>)

Checked(df) == df.present /\ ~Empty(df)

\* The mapping holds a key only for a non-empty list.
_detect_missing_critical_items(core) ==
    LET bs == Checked(core.bs_df)
        is == Checked(core.is_df)
    IN IF (bs /\ IsnaRaises(core.bs_df, CRITICAL_BS_ITEMS))
          \/ (is /\ IsnaRaises(core.is_df, CRITICAL_IS_ITEMS))
       THEN [raised |-> "ValueError", missing |-> <<>>]
       ELSE LET missing_bs == IF bs THEN MissingIn(core.bs_df, CRITICAL_BS_ITEMS) ELSE <<>>
                missing_is == IF is THEN MissingIn(core.is_df, CRITICAL_IS_ITEMS) ELSE <<>>
                list(t) == IF t = "BS" THEN missing_bs ELSE missing_is
                keys == {k \in {"BS", "IS"} : list(k) # <<>>}
            IN [raised |-> "none", missing |-> [t \in keys |-> list(t)]]

(***************************************************************************)
(* reconcile_data                                                          *)
(***************************************************************************)
\* df.loc[item, col] = value: every column labelled col gets the value.
SetLoc(df, item, col, value) ==
    [df EXCEPT !.columns =
        [k \in 1..Len(df.columns) |->
            IF df.columns[k].label = col
            THEN [df.columns[k] EXCEPT !.cells[item] = <<value>>]
            ELSE df.columns[k]]]

ReconciliationEntry(statement_type, item, value, latest_col) ==
    [statement_type |-> statement_type, item |-> item,
     provided_value |-> value, fiscal_year |-> latest_col]

\* The outcome of reconcile_data on a freshly loaded core: the exception it
\* raises if any, the core afterwards (its frames live in memory only), and
\* the entries the stored log gains.  `if latest_col:` is false for None and
\* for a year 0.  When the core's log is the stored list itself, line 190
\* appends to the stored list and line 199 appends the same entry once more.
reconcile_data(core, statement_type, item, value) ==
    LET df == IF statement_type = "BS" THEN core.bs_df ELSE core.is_df
        branch == statement_type \in {"BS", "IS"} /\ df.present
        known == branch /\ item \in df.index
        latest_col == IF known /\ df.columns # <<>> THEN <<LatestCol(df)>> ELSE <<>>
        logs == latest_col # <<>> /\ latest_col # <<0>>
        entry == ReconciliationEntry(statement_type, item, value, latest_col[1])
        written == SetLoc(df, item, latest_col[1], value)
    IN IF ~branch THEN [raised |-> "HTTPException", core |-> core, appended |-> <<>>]
       ELSE IF known /\ df.columns = <<>>
       THEN [raised |-> "IndexError", core |-> core, appended |-> <<>>]
       ELSE IF ~logs THEN [raised |-> "none", core |-> core, appended |-> <<>>]
       ELSE [raised |-> "none",
             core |-> [core EXCEPT
                         !.bs_df = IF statement_type = "BS" THEN written ELSE @,
                         !.is_df = IF statement_type = "IS" THEN written ELSE @,
                         !.reconciliation_log = Append(@, entry)],
             appended |-> IF core.log_is_stored_list THEN <<entry, entry>> ELSE <<entry>>]

(***************************************************************************)
(* _analyze_financials                                                     *)
(***************************************************************************)
\* A value of analysis_results: None, a float NaN, or the number num/den.
NoneValue == [kind |-> "None", num |-> 0, den |-> 1]
NanValue == [kind |-> "nan", num |-> 0, den |-> 1]
Number(n, d) == [kind |-> "num", num |-> n, den |-> d]

\* Float arithmetic on cells: NaN propagates.
Plus(x, y) == IF x = <<>> \/ y = <<>> THEN <<>> ELSE <<x[1] + y[1]>>
Minus(x, y) == IF x = <<>> \/ y = <<>> THEN <<>> ELSE <<x[1] - y[1]>>

\* `x / y if y else 0`: 0 is false, NaN is true.
DivideOrZero(x, y) ==
    IF y = <<0>> THEN Number(0, 1)
    ELSE IF x = <<>> \/ y = <<>> THEN NanValue
    ELSE Number(x[1], y[1])

Cell(df, item) == Loc(df, item, LatestCol(df))[1]

HasAll(df, items) == Checked(df) /\ LatestCol(df) # 0 /\ items \subseteq df.index

\* Several columns carrying the latest label make every .loc a Series, and
\* `... if current_liabilities else 0` (or `if revenue`) raises ValueError.
_analyze_financials(core) ==
    LET bs == core.bs_df
        is == core.is_df
        liquidity == HasAll(bs, {"Cash", "Receivables", "Inventory", "ShortTermBorrowings"})
        profitability == HasAll(is, {"Revenue", "COGS", "SGnA"})
        current_assets ==
            Plus(Plus(Cell(bs, "Cash"), Cell(bs, "Receivables")),
                 IF "Inventory" \in bs.index THEN Cell(bs, "Inventory") ELSE <<0>>)
        current_liabilities == Cell(bs, "ShortTermBorrowings")
        revenue == Cell(is, "Revenue")
        gross_profit == Minus(revenue, Cell(is, "COGS"))
        operating_income == Minus(gross_profit, Cell(is, "SGnA"))
    IN IF (liquidity /\ Len(bs.columns) > 1) \/ (profitability /\ Len(is.columns) > 1)
       THEN [raised |-> "ValueError", current_ratio |-> NoneValue,
             gross_margin |-> NoneValue, operating_margin |-> NoneValue]
       ELSE [raised |-> "none",
             current_ratio |->
                 IF liquidity THEN DivideOrZero(current_assets, current_liabilities)
                 ELSE NoneValue,
             gross_margin |->
                 IF profitability THEN DivideOrZero(gross_profit, revenue) ELSE NoneValue,
             operating_margin |->
                 IF profitability THEN DivideOrZero(operating_income, revenue) ELSE NoneValue]

(***************************************************************************)
(* _generate_report_content and run_full_analysis                          *)
(***************************************************************************)
NoReport == [summary |-> {}, what |-> NoneValue, reconciliation_log |-> <<>>]

\* The executive summary holds a sentence for each ratio that is not None;
\* the detail section formats gp_margin with {:.2%} whatever it is, which
\* raises TypeError for None.
_generate_report_content(analysis_results, log) ==
    IF analysis_results.gross_margin = NoneValue
    THEN [raised |-> "TypeError", report |-> NoReport]
    ELSE [raised |-> "none",
          report |->
            [summary |-> {r \in {"current_ratio", "gross_margin", "operating_margin"} :
                            analysis_results[r] # NoneValue},
             what |-> analysis_results.gross_margin,
             reconciliation_log |-> log]]

Outcome(raised, status, missing, analysis, report) ==
    [raised |-> raised, status |-> status, missing_items |-> missing,
     analysis |-> analysis, report |-> report]

NoAnalysis ==
    [raised |-> "none", current_ratio |-> NoneValue,
     gross_margin |-> NoneValue, operating_margin |-> NoneValue]

\* A faulty variant of run_full_analysis: the engine analyses whatever the
\* detector found.
run_full_analysis_NoGate(core) ==
    LET detected == _detect_missing_critical_items(core)
        analysis == _analyze_financials(core)
        content == _generate_report_content(analysis, core.reconciliation_log)
    IN IF detected.raised # "none"
       THEN Outcome(detected.raised, "none", <<>>, NoAnalysis, NoReport)
       ELSE IF analysis.raised # "none"
       THEN Outcome(analysis.raised, "none", <<>>, NoAnalysis, NoReport)
       ELSE IF content.raised # "none"
       THEN Outcome(content.raised, "none", <<>>, analysis, NoReport)
       ELSE Outcome("none", "COMPLETED", <<>>, analysis, content.report)

run_full_analysis(core) ==
    LET detected == _detect_missing_critical_items(core)
        analysis == _analyze_financials(core)
        content == _generate_report_content(analysis, core.reconciliation_log)
    IN IF detected.raised # "none"
       THEN Outcome(detected.raised, "none", <<>>, NoAnalysis, NoReport)
       ELSE IF detected.missing # <<>>
       THEN Outcome("none", "AWAITING_RECONCILIATION", detected.missing, NoAnalysis, NoReport)
       ELSE IF analysis.raised # "none"
       THEN Outcome(analysis.raised, "none", <<>>, NoAnalysis, NoReport)
       ELSE IF content.raised # "none"
       THEN Outcome(content.raised, "none", <<>>, analysis, NoReport)
       ELSE Outcome("none", "COMPLETED", <<>>, analysis, content.report)

(***************************************************************************)
(* The HTTP handlers.  `response` is what the last request returned: the   *)
(* status code (500 for an exception no handler catches) and the body.     *)
(***************************************************************************)
\* `item` is the account a "Reconciled" message names.
Response(op, project_id, code, status, missing, analysis, report, item) ==
    [op |-> op, project_id |-> project_id, code |-> code, status |-> status,
     missing_items |-> missing, analysis |-> analysis, report |-> report,
     item |-> item]

Plain(op, project_id, code, status) ==
    Response(op, project_id, code, status, <<>>, NoAnalysis, NoReport, "")

Projects == DOMAIN financial_data_header

\* A faulty variant of Forbidden: only the project's existence is checked,
\* not its owner.
Forbidden_AnyUser(project_id, user) == project_id \notin Projects

\* The 403 check of the three project handlers.
Forbidden(project_id, user) ==
    project_id \notin Projects \/ financial_data_header[project_id].user_id # user

StoredLog(project_id) ==
    IF project_id \in DOMAIN reconciliation_log THEN reconciliation_log[project_id] ELSE <<>>

\* A faulty variant of AppendStored: the stored list is replaced by the new entries.
AppendStored_Overwrite(log, appended) == appended

\* setdefault(project_id, []).append(...): the stored list grows at its end.
AppendStored(log, appended) == log \o appended

LogTotal == Cardinality({<<p, k>> \in (DOMAIN reconciliation_log) \X (1..(2 * MaxLog + 2)) :
                            k <= Len(reconciliation_log[p])})

\* A faulty variant of LineItems: an amount of 0 is stored as no amount
\* (`row[year] if row[year] else None`).
LineItems_ZeroAsNone(statement_type, fiscal_year, rows) ==
    [k \in 1..Len(rows) |->
        [statement_type |-> statement_type, standard_account |-> rows[k].account,
         amount |-> IF rows[k].amount = <<0>> THEN <<>> ELSE rows[k].amount,
         year |-> fiscal_year]]

\* One stored line item per row of the file, in file order.
LineItems(statement_type, fiscal_year, rows) ==
    [k \in 1..Len(rows) |->
        [statement_type |-> statement_type, standard_account |-> rows[k].account,
         amount |-> rows[k].amount, year |-> fiscal_year]]

\* A faulty variant of NewProjectId: the id of an existing project is handed out again.
NewProjectId_Reused ==
    IF Projects = {} THEN Cardinality(Projects) + 1 ELSE CHOOSE p \in Projects : TRUE

\* str(uuid.uuid4()): an id no stored project has.
NewProjectId == Cardinality(Projects) + 1

upload_financial_data(user, fiscal_year, statement_type, file, projectIds) ==
    LET project_id == NewProjectId
    IN IF file.problem # "none"
       THEN /\ response' = Plain("upload", 0, 400, file.problem)
            /\ UNCHANGED <<financial_data_header, financial_data_line_items, reconciliation_log>>
       ELSE /\ project_id \in projectIds
            /\ financial_data_line_items' =
                   [p \in DOMAIN financial_data_line_items \cup {project_id} |->
                       IF p = project_id
                       THEN LineItems(statement_type, fiscal_year, file.rows)
                       ELSE financial_data_line_items[p]]
            /\ financial_data_header' =
                   [p \in Projects \cup {project_id} |->
                       IF p = project_id
                       THEN [user_id |-> user, fiscal_year |-> fiscal_year, status |-> "Uploaded"]
                       ELSE financial_data_header[p]]
            /\ response' = Plain("upload", project_id, 200, "Uploaded")
            /\ UNCHANGED reconciliation_log

\* A faulty variant of analyze_financials: when data is missing, the absent
\* amounts are stored as 0 before the answer is returned.
analyze_financials_Imputing(project_id, user) ==
    LET result == run_full_analysis(FinanceAIAgentCore(project_id))
        imputed(items) ==
            [k \in 1..Len(items) |->
                IF items[k].amount = <<>> THEN [items[k] EXCEPT !.amount = <<0>>]
                ELSE items[k]]
    IN IF Forbidden(project_id, user)
       THEN /\ response' = Plain("analyze", project_id, 403, "")
            /\ UNCHANGED <<financial_data_header, financial_data_line_items, reconciliation_log>>
       ELSE IF result.raised # "none"
       THEN /\ response' = Plain("analyze", project_id, 500, result.raised)
            /\ UNCHANGED <<financial_data_header, financial_data_line_items, reconciliation_log>>
       ELSE IF result.status = "AWAITING_RECONCILIATION"
       THEN /\ response' = Response("analyze", project_id, 200, result.status,
                                    result.missing_items, NoAnalysis, NoReport, "")
            /\ financial_data_line_items' =
                   [financial_data_line_items EXCEPT ![project_id] = imputed(@)]
            /\ UNCHANGED <<financial_data_header, reconciliation_log>>
       ELSE /\ financial_data_header' =
                   [financial_data_header EXCEPT ![project_id].status = "Completed"]
            /\ response' = Response("analyze", project_id, 200, "Completed", <<>>,
                                    result.analysis, result.report, "")
            /\ UNCHANGED <<financial_data_line_items, reconciliation_log>>

analyze_financials(project_id, user) ==
    LET result == run_full_analysis(FinanceAIAgentCore(project_id))
    IN IF Forbidden(project_id, user)
       THEN /\ response' = Plain("analyze", project_id, 403, "")
            /\ UNCHANGED <<financial_data_header, financial_data_line_items, reconciliation_log>>
       ELSE IF result.raised # "none"
       THEN /\ response' = Plain("analyze", project_id, 500, result.raised)
            /\ UNCHANGED <<financial_data_header, financial_data_line_items, reconciliation_log>>
       ELSE IF result.status = "AWAITING_RECONCILIATION"
       THEN /\ response' = Response("analyze", project_id, 200, result.status,
                                    result.missing_items, NoAnalysis, NoReport, "")
            /\ UNCHANGED <<financial_data_header, financial_data_line_items, reconciliation_log>>
       ELSE /\ financial_data_header' =
                   [financial_data_header EXCEPT ![project_id].status = "Completed"]
            /\ response' = Response("analyze", project_id, 200, "Completed", <<>>,
                                    result.analysis, result.report, "")
            /\ UNCHANGED <<financial_data_line_items, reconciliation_log>>

\* A faulty variant of reconcile_missing_data: a value for an account the
\* project never ingested is stored as a new line item.
reconcile_missing_data_Upsert(project_id, user, statement_type, item, value, maxLog) ==
    LET done == reconcile_data(FinanceAIAgentCore(project_id), statement_type, item, value)
        answer(code, status) == Plain("reconcile", project_id, code, status)
        items == financial_data_line_items[project_id]
        known == \E k \in 1..Len(items) : items[k].standard_account = item
        created == [statement_type |-> statement_type, standard_account |-> item,
                    amount |-> <<value>>,
                    year |-> financial_data_header[project_id].fiscal_year]
    IN IF Forbidden(project_id, user)
       THEN /\ response' = answer(403, "")
            /\ UNCHANGED <<financial_data_header, financial_data_line_items, reconciliation_log>>
       ELSE IF done.raised # "none"
       THEN /\ response' = answer(400, done.raised)
            /\ UNCHANGED <<financial_data_header, financial_data_line_items, reconciliation_log>>
       ELSE /\ done.appended # <<>> => LogTotal < maxLog
            /\ reconciliation_log' =
                   IF done.appended = <<>> THEN reconciliation_log
                   ELSE [p \in DOMAIN reconciliation_log \cup {project_id} |->
                            IF p = project_id THEN AppendStored(StoredLog(p), done.appended)
                            ELSE reconciliation_log[p]]
            /\ financial_data_line_items' =
                   IF known THEN financial_data_line_items
                   ELSE [financial_data_line_items EXCEPT ![project_id] = Append(@, created)]
            /\ response' = Response("reconcile", project_id, 200, "Reconciled", <<>>,
                                    NoAnalysis, NoReport, item)
            /\ UNCHANGED financial_data_header

reconcile_missing_data(project_id, user, statement_type, item, value, maxLog) ==
    LET done == reconcile_data(FinanceAIAgentCore(project_id), statement_type, item, value)
        answer(code, status) == Plain("reconcile", project_id, code, status)
    IN IF Forbidden(project_id, user)
       THEN /\ response' = answer(403, "")
            /\ UNCHANGED <<financial_data_header, financial_data_line_items, reconciliation_log>>
       ELSE IF done.raised # "none"
       THEN /\ response' = answer(400, done.raised)
            /\ UNCHANGED <<financial_data_header, financial_data_line_items, reconciliation_log>>
       ELSE /\ done.appended # <<>> => LogTotal < maxLog
            /\ reconciliation_log' =
                   IF done.appended = <<>> THEN reconciliation_log
                   ELSE [p \in DOMAIN reconciliation_log \cup {project_id} |->
                            IF p = project_id THEN AppendStored(StoredLog(p), done.appended)
                            ELSE reconciliation_log[p]]
            /\ response' = Response("reconcile", project_id, 200, "Reconciled", <<>>,
                                    NoAnalysis, NoReport, item)
            /\ UNCHANGED <<financial_data_header, financial_data_line_items>>

get_report(project_id, user) ==
    LET result == run_full_analysis(FinanceAIAgentCore(project_id))
    IN /\ response' =
            IF Forbidden(project_id, user) THEN Plain("report", project_id, 403, "")
            ELSE IF result.raised # "none" THEN Plain("report", project_id, 500, result.raised)
            ELSE IF result.status = "AWAITING_RECONCILIATION"
            THEN Plain("report", project_id, 400, "")
            ELSE Response("report", project_id, 200, "Completed", <<>>,
                          result.analysis, result.report, "")
       /\ UNCHANGED <<financial_data_header, financial_data_line_items, reconciliation_log>>

Init ==
    /\ financial_data_header = <<>>
    /\ financial_data_line_items = <<>>
    /\ reconciliation_log = <<>>
    /\ response = Plain("none", 0, 0, "")

Upload(files, projectIds) ==
    \E user \in Users, fiscal_year \in Years, statement_type \in UploadTypes, file \in files :
        upload_financial_data(user, fiscal_year, statement_type, file, projectIds)

Analyze(projectIds) ==
    \E project_id \in projectIds, user \in Users : analyze_financials(project_id, user)

Reconcile(accts, projectIds, maxLog) ==
    \E project_id \in projectIds, user \in Users, statement_type \in RequestTypes,
       item \in Range(accts), value \in ReconcileValues :
        reconcile_missing_data(project_id, user, statement_type, item, value, maxLog)

Report(projectIds) ==
    \E project_id \in projectIds, user \in Users : get_report(project_id, user)

SpecFiles == Files(Accounts, MaxRows)

Next ==
    \/ Upload(SpecFiles, ProjectIds)
    \/ Analyze(ProjectIds)
    \/ Reconcile(Accounts, ProjectIds, MaxLog)
    \/ Report(ProjectIds)

Spec == Init /\ [][Next]_vars

\* Income-statement projects: up to three rows over the accounts the
\* profitability ratios read.
ISAccounts == <<"Revenue", "COGS", "SGnA">>

ISFiles == Files(ISAccounts, MaxRows + 1)

NextIS ==
    \/ Upload(ISFiles, ProjectIds)
    \/ Analyze(ProjectIds)
    \/ Reconcile(ISAccounts, ProjectIds, MaxLog)
    \/ Report(ProjectIds)

SpecIS == Init /\ [][NextIS]_vars

(***************************************************************************)
(* Properties.                                                             *)
(***************************************************************************)
Core(p) == FinanceAIAgentCore(p)

Detected(p) == _detect_missing_critical_items(Core(p))

Listed(missing) == UNION {Range(missing[t]) : t \in DOMAIN missing}

StoredAccounts(p) ==
    {financial_data_line_items[p][k].standard_account :
        k \in 1..Len(financial_data_line_items[p])}

IsPrefix(s, t) == Len(s) <= Len(t) /\ \A k \in 1..Len(s) : s[k] = t[k]

ReconcileStep(p, u, t, i, v) == reconcile_missing_data(p, u, t, i, v, MaxLog)

\* C1: once a Reconcile of an account has succeeded (its entry is in the
\* project's log), a later Detect on the project, reloading it from the
\* store, no longer reports that account missing.
C1_ReconciledAccountNotMissing ==
    \A p \in DOMAIN reconciliation_log :
        \A k \in 1..Len(reconciliation_log[p]) :
            Detected(p).raised = "none"
                => reconciliation_log[p][k].item \notin Listed(Detected(p).missing)

\* C2: an Analyze answers AwaitingReconciliation only while some account it
\* lists has no successful Reconcile: once every listed account has been
\* reconciled under its statement type, Analyze no longer awaits input.
C2_AwaitingOnlyUnreconciled ==
    (response.op = "analyze" /\ response.status = "AWAITING_RECONCILIATION")
        => \E t \in DOMAIN response.missing_items :
             \E a \in Range(response.missing_items[t]) :
                \A k \in 1..Len(StoredLog(response.project_id)) :
                    ~(/\ StoredLog(response.project_id)[k].item = a
                      /\ StoredLog(response.project_id)[k].statement_type = t)

\* C3: a Reconcile by the owner whose statement type is not recognised, or
\* whose account the project never ingested, fails (400) and never answers
\* "Reconciled".
C3_UnknownAccountRejected ==
    [][\A p \in ProjectIds, u \in Users, t \in RequestTypes,
          i \in Range(Accounts), v \in ReconcileValues :
            (/\ ReconcileStep(p, u, t, i, v)
             /\ ~Forbidden(p, u)
             /\ (t \notin {"BS", "IS"} \/ i \notin StoredAccounts(p)))
                => response'.code = 400]_vars

\* C4: a successful Reconcile of an ingested account makes the project's
\* stored log exactly one entry longer, on the first call and on every later one.
C4_LogGrowsByOne ==
    [][\A p \in ProjectIds, u \in Users, t \in RequestTypes,
          i \in Range(Accounts), v \in ReconcileValues :
            (/\ ReconcileStep(p, u, t, i, v)
             /\ response'.code = 200
             /\ i \in StoredAccounts(p))
                => /\ p \in DOMAIN reconciliation_log'
                   /\ Len(reconciliation_log'[p]) = Len(StoredLog(p)) + 1]_vars

\* C5: the audit log is append-only: every step of every handler leaves each
\* project's stored log a prefix of the log after the step.
C5_LogAppendOnly ==
    [][\A p \in DOMAIN reconciliation_log :
          /\ p \in DOMAIN reconciliation_log'
          /\ IsPrefix(reconciliation_log[p], reconciliation_log'[p])]_vars

\* A log that was extended after it already held an entry, then read by Analyze.
C5_Witness ==
    /\ response.op = "analyze"
    /\ \E p \in DOMAIN reconciliation_log : Len(reconciliation_log[p]) >= 2

\* The Analyze request the last response answers, made by the owner.
Analyzed(p) == response.op = "analyze" /\ response.project_id = p /\ response.code # 403

\* C6: whenever the Detector returns an empty mapping for a project, Analyze
\* on it returns Completed with a report and raises nothing, also when a
\* ratio is None.
C6_EmptyDetectCompletes ==
    \A p \in Projects :
        (Analyzed(p) /\ Detected(p).raised = "none" /\ Detected(p).missing = <<>>)
            => (response.code = 200 /\ response.status = "Completed")

\* C7: while the Detector's output for a project's data is non-empty, the
\* stored status is never Completed, and Analyze answers
\* AwaitingReconciliation with exactly the Detector's mapping, no analysis
\* and no report.
C7_AwaitingWhenMissing ==
    \A p \in Projects :
        (Detected(p).raised = "none" /\ Detected(p).missing # <<>>)
            => /\ financial_data_header[p].status # "Completed"
               /\ Analyzed(p)
                    => /\ response.code = 200
                       /\ response.status = "AWAITING_RECONCILIATION"
                       /\ response.missing_items = Detected(p).missing
                       /\ response.analysis = NoAnalysis
                       /\ response.report = NoReport

\* An Analyze that answered with a non-empty mapping.
C7_Witness ==
    /\ response.project_id \in Projects
    /\ Analyzed(response.project_id)
    /\ response.status = "AWAITING_RECONCILIATION"
    /\ response.missing_items # <<>>
    /\ response.missing_items = Detected(response.project_id).missing

ItemsOf(p, t) ==
    {k \in 1..Len(financial_data_line_items[p]) :
        financial_data_line_items[p][k].statement_type = t}

\* C8: Detect returns an entry for a statement type only if the project has
\* at least one line item recorded under that statement type.
C8_EntryOnlyForIngestedType ==
    \A p \in Projects :
        Detected(p).raised = "none"
            => \A t \in DOMAIN Detected(p).missing : ItemsOf(p, t) # {}

Critical(t) == IF t = "BS" THEN CRITICAL_BS_ITEMS ELSE CRITICAL_IS_ITEMS

LatestYear(p, t) ==
    CHOOSE y \in {financial_data_line_items[p][k].year : k \in ItemsOf(p, t)} :
        \A k \in ItemsOf(p, t) : financial_data_line_items[p][k].year <= y

\* No line item of the statement type gives the account an amount in the latest period.
AbsentAmount(p, t, a) ==
    \A k \in ItemsOf(p, t) :
        LET li == financial_data_line_items[p][k]
        IN ~(li.standard_account = a /\ li.year = LatestYear(p, t) /\ li.amount # <<>>)

\* C9: for every statement type that has data, Detect returns exactly the
\* mandatory accounts of the type whose latest-period amount is absent,
\* whether ingested with a null amount or never ingested.
C9_DetectExactlyAbsent ==
    \A p \in Projects : \A t \in {"BS", "IS"} :
        ItemsOf(p, t) # {}
            => LET expected == SelectSeq(Critical(t), LAMBDA a : AbsentAmount(p, t, a))
                   detected == Detected(p)
               IN /\ detected.raised = "none"
                  /\ IF expected = <<>> THEN t \notin DOMAIN detected.missing
                     ELSE t \in DOMAIN detected.missing /\ detected.missing[t] = expected

HasAmount(p, a) ==
    \E k \in 1..Len(financial_data_line_items[p]) :
        /\ financial_data_line_items[p][k].standard_account = a
        /\ financial_data_line_items[p][k].amount # <<>>

\* C10: the Analyzer reports gross_margin and operating_margin as None when
\* any of revenue, cost of goods sold or selling/administrative expense has
\* no amount, and as numbers when all three have one; it never raises.
C10_ProfitabilityNullOrNumeric ==
    \A p \in Projects :
        LET results == _analyze_financials(Core(p))
        IN /\ results.raised = "none"
           /\ IF HasAmount(p, "Revenue") /\ HasAmount(p, "COGS") /\ HasAmount(p, "SGnA")
              THEN results.gross_margin.kind = "num" /\ results.operating_margin.kind = "num"
              ELSE results.gross_margin = NoneValue /\ results.operating_margin = NoneValue

\* The report request the last response answers, made by the owner.
Retrieved(p) == response.op = "report" /\ response.project_id = p /\ response.code # 403

LineItemKeys(items) ==
    {<<items[k].statement_type, items[k].standard_account, items[k].year>> :
        k \in 1..Len(items)}

\* C12: no step of any handler changes the set of line-item keys of an
\* existing project: Reconcile adds none and nothing deletes one.
C12_LineItemKeysFixed ==
    [][\A p \in Projects :
          /\ p \in DOMAIN financial_data_line_items'
          /\ LineItemKeys(financial_data_line_items'[p])
                = LineItemKeys(financial_data_line_items[p])]_vars

\* A Reconcile that answered "Reconciled" for an account the project never ingested.
C12_Witness ==
    /\ response.op = "reconcile"
    /\ response.code = 200
    /\ response.project_id \in Projects
    /\ response.item \notin StoredAccounts(response.project_id)

\* C13: a successful Reconcile that repeats the project's latest logged
\* Reconcile with identical arguments leaves the line items as they were and
\* makes the audit log exactly one entry longer.
C13_RepeatIdempotentButLogged ==
    [][\A p \in ProjectIds, u \in Users, t \in RequestTypes,
          i \in Range(Accounts), v \in ReconcileValues :
            (/\ ReconcileStep(p, u, t, i, v)
             /\ response'.code = 200
             /\ StoredLog(p) # <<>>
             /\ LET last == StoredLog(p)[Len(StoredLog(p))]
                IN last.statement_type = t /\ last.item = i /\ last.provided_value = v)
                => /\ financial_data_line_items' = financial_data_line_items
                   /\ Len(reconciliation_log'[p]) = Len(StoredLog(p)) + 1]_vars

(***************************************************************************)
(* The liquidity accounts of _analyze_financials: files carry three or     *)
(* four of them (or are empty or rejected), and Reconcile is asked for the *)
(* inventory account.                                                      *)
(***************************************************************************)
LiquidityAccounts == <<"Cash", "Receivables", "Inventory", "ShortTermBorrowings">>
LiquidityFiles ==
    {f \in Files(LiquidityAccounts, MaxRows + 2) :
        Len(f.rows) = 0 \/ Len(f.rows) > MaxRows}

NextLiquidity ==
    \/ Upload(LiquidityFiles, ProjectIds)
    \/ Analyze(ProjectIds)
    \/ Reconcile(<<"Inventory">>, ProjectIds, MaxLog)
    \/ Report(ProjectIds)

SpecLiquidity == Init /\ [][NextLiquidity]_vars

\* The stored amount of account a, as a sequence (empty when none is stored).
AmountOf(p, a) ==
    LET ks == {k \in 1..Len(financial_data_line_items[p]) :
                  financial_data_line_items[p][k].standard_account = a}
    IN IF ks = {} THEN <<>> ELSE financial_data_line_items[p][CHOOSE k \in ks : TRUE].amount

\* C14: when all four liquidity accounts have an amount and short-term
\* borrowings is 0, the Analyzer returns current_ratio = 0 without raising
\* (in particular without a division by zero).
C14_ZeroBorrowingsRatioZero ==
    \A p \in Projects :
        (/\ \A a \in Range(LiquidityAccounts) : HasAmount(p, a)
         /\ AmountOf(p, "ShortTermBorrowings") = <<0>>)
            => /\ _analyze_financials(Core(p)).raised = "none"
               /\ _analyze_financials(Core(p)).current_ratio = Number(0, 1)

\* C17: when cash, receivables and short-term borrowings have an amount and
\* the project has no inventory row at all, the Analyzer returns a numeric
\* current_ratio, computed from current_assets = cash + receivables.
C17_AbsentInventoryCountsAsZero ==
    \A p \in Projects :
        (/\ \A a \in {"Cash", "Receivables", "ShortTermBorrowings"} : HasAmount(p, a)
         /\ "Inventory" \notin StoredAccounts(p))
            => /\ _analyze_financials(Core(p)).raised = "none"
               /\ _analyze_financials(Core(p)).current_ratio =
                     DivideOrZero(Plus(AmountOf(p, "Cash"), AmountOf(p, "Receivables")),
                                  AmountOf(p, "ShortTermBorrowings"))

\* A present zero is not among the accounts the Detector lists.
ZeroNeverMissing ==
    \A p \in Projects :
        Detected(p).raised = "none"
            => \A a \in Listed(Detected(p).missing) : AmountOf(p, a) # <<0>>

\* C15: an accepted upload stores, for each row of the file in order, one
\* line item with the row's account, the requested year as period and the
\* row's amount, a blank staying absent and a 0 staying 0; and the Detector
\* never lists an account whose stored amount is 0.
C15_IngestRoundTrip ==
    /\ [][(response'.op = "upload" /\ response'.code = 200) =>
            \A user \in Users, fiscal_year \in Years,
               statement_type \in UploadTypes, file \in SpecFiles :
                upload_financial_data(user, fiscal_year, statement_type, file, ProjectIds)
                    => LET items == financial_data_line_items'[response'.project_id]
                       IN /\ Len(items) = Len(file.rows)
                          /\ \A k \in 1..Len(items) :
                                /\ items[k].statement_type = statement_type
                                /\ items[k].standard_account = file.rows[k].account
                                /\ items[k].year = fiscal_year
                                /\ items[k].amount = file.rows[k].amount]_vars
    /\ []ZeroNeverMissing

\* An upload just stored a zero amount and a blank amount, and the Detector
\* returns on the project.
C15_Witness ==
    /\ response.op = "upload"
    /\ response.code = 200
    /\ LET p == response.project_id
       IN /\ \E a \in StoredAccounts(p) : AmountOf(p, a) = <<0>>
          /\ \E a \in StoredAccounts(p) : AmountOf(p, a) = <<>>
          /\ Detected(p).raised = "none"
          /\ Detected(p).missing # <<>>

\* The caller is not the owner of project p, or p does not exist.
NotOwner(p, u) ==
    p \notin DOMAIN financial_data_header \/ financial_data_header[p].user_id # u

\* C16: Analyze, Reconcile and report retrieval by a caller who is not the
\* owner, or on a project id that does not exist, answer 403 and leave the
\* stored headers (status), line items and audit logs unchanged.
C16_ForeignCallerRejected ==
    [][\A p \in ProjectIds, u \in Users :
          (/\ NotOwner(p, u)
           /\ \/ analyze_financials(p, u)
              \/ get_report(p, u)
              \/ \E t \in RequestTypes, i \in Range(Accounts), v \in ReconcileValues :
                    ReconcileStep(p, u, t, i, v))
              => /\ response'.code = 403
                 /\ UNCHANGED <<financial_data_header, financial_data_line_items,
                                reconciliation_log>>]_vars

\* A Reconcile on an existing project, by a user who is not its owner, was answered.
C16_Witness ==
    /\ response.op = "reconcile"
    /\ response.project_id \in Projects
    /\ response.code = 403
    /\ StoredLog(response.project_id) # <<>>

\* C18: Analyze and report retrieval (each running the Detector and, past
\* it, the Analyzer) leave the stored line items and audit logs unchanged,
\* and an owner's Analyze that directly follows an owner's Analyze of the
\* same project returns the same response (status, missing items, ratios).
C18_ReadOnlyAnalysis ==
    [][response'.op \in {"analyze", "report"} =>
          \A p \in ProjectIds, u \in Users :
              /\ (analyze_financials(p, u) \/ get_report(p, u))
                    => UNCHANGED <<financial_data_line_items, reconciliation_log>>
              /\ (Analyzed(p) /\ ~NotOwner(p, u) /\ analyze_financials(p, u))
                    => response' = response]_vars

\* An owner's Analyze was answered on a project that has line items and a
\* non-empty audit log.
C18_Witness ==
    \E p \in Projects :
        /\ Analyzed(p)
        /\ response.code = 200
        /\ financial_data_line_items[p] # <<>>
        /\ StoredLog(p) # <<>>

\* C19: the handlers run one at a time (reconcile_missing_data has no
\* suspension point), so concurrent Reconcile requests are the sequences of
\* Reconcile steps; after each Reconcile that answered success the project's
\* audit log keeps all earlier entries and holds a new entry of that call.
C19_NoLostReconcile ==
    [][(response'.op = "reconcile" /\ response'.code = 200) =>
          \A p \in ProjectIds, u \in Users, t \in RequestTypes,
             i \in Range(Accounts), v \in ReconcileValues :
              ReconcileStep(p, u, t, i, v)
                 => LET before == StoredLog(p)
                        after == IF p \in DOMAIN reconciliation_log'
                                 THEN reconciliation_log'[p] ELSE <<>>
                    IN /\ IsPrefix(before, after)
                       /\ \E k \in (Len(before) + 1)..Len(after) :
                             /\ after[k].statement_type = t
                             /\ after[k].item = i
                             /\ after[k].provided_value = v]_vars

(***************************************************************************)
(* Two projects: files of at most one row, of the short-term borrowings    *)
(* account.                                                                *)
(***************************************************************************)
TwoProjectIds == {1, 2}
BorrowingsOnly == <<"ShortTermBorrowings">>
TwoProjectFiles == Files(BorrowingsOnly, MaxRows)

NextTwoProjects ==
    \/ Upload(TwoProjectFiles, TwoProjectIds)
    \/ Analyze(TwoProjectIds)
    \/ Reconcile(BorrowingsOnly, TwoProjectIds, MaxLog)
    \/ Report(TwoProjectIds)

SpecTwoProjects == Init /\ [][NextTwoProjects]_vars

\* C20: a handler's step leaves the header (status), line items and audit
\* log of every project other than the one it answers for unchanged, and an
\* accepted upload answers with a project id no stored project had.
C20_ProjectsIsolated ==
    [][/\ \A q \in Projects :
             q # response'.project_id
                => /\ q \in DOMAIN financial_data_header'
                   /\ financial_data_header'[q] = financial_data_header[q]
                   /\ q \in DOMAIN financial_data_line_items'
                   /\ financial_data_line_items'[q] = financial_data_line_items[q]
                   /\ StoredLog(q) = IF q \in DOMAIN reconciliation_log'
                                     THEN reconciliation_log'[q] ELSE <<>>
       /\ (response'.op = "upload" /\ response'.code = 200)
             => response'.project_id \notin Projects]_vars

\* Two projects exist, both with a non-empty audit log, and a Reconcile on
\* one of them was just answered with success.
C20_Witness ==
    \E p, q \in Projects :
        /\ p # q
        /\ response.op = "reconcile"
        /\ response.code = 200
        /\ response.project_id = p
        /\ StoredLog(p) # <<>>
        /\ StoredLog(q) # <<>>

====
